---- MODULE Spec2Model ----
(***************************************************************************)
(* glaunch (src/glaunch.cc): the option parser, the device inventory, the  *)
(* fit selector, the availability waiter, the launcher and the supervisor  *)
(* of main(), as a state machine.                                          *)
(*                                                                         *)
(* Integer widths are scaled: TLC's integers are 32 bits wide, so the      *)
(* program's `unsigned int` (2^32 values) and `unsigned long long` (2^64   *)
(* values) are modelled modulo UINT_MOD and ULL_MOD.  Every conversion     *)
(* the code performs between the two widths is kept as a reduction         *)
(* modulo UINT_MOD, and the wait durations range above UINT_MOD.           *)
(* The option parser alone works on unscaled numbers: its arguments stay   *)
(* small, and the defaults 3600 and 60 are the program's own.              *)
(*                                                                         *)
(* Time is the second-granular clock read by time(nullptr).  It advances   *)
(* while the process sleeps, by exactly the seconds slept; a poll of the   *)
(* inventory is instantaneous at that granularity, except that a loop     *)
(* iteration which does not sleep at all (a planned sleep of 0 seconds)    *)
(* may see the clock tick, since wall-clock time passes while the process  *)
(* busy-polls.                                                             *)
(***************************************************************************)
EXTENDS Integers, Sequences, FiniteSets

\* ---------------------------------------------------------------- bounds
\* number of values of `unsigned int` (stands for 2^32)
UINT_MOD == 3
\* number of values of `unsigned long long` (stands for 2^64)
ULL_MOD == 8
\* largest device count nvmlDeviceGetCount reports
MaxDevices == 2
\* largest free-memory byte count a device reports
MaxFree == 1
\* largest --memory-budget value
MaxBudget == 1
\* largest --gpus value
MaxGpus == 2
\* largest --wait-timeout / --wait-interval value (above UINT_MOD)
MaxWait == 4
\* largest device count of the host the waiter is checked on
WaitDevices == 1
\* the poll counter saturates here
MaxCount == 2
\* largest --watch-memory value
MaxMonitor == 1
\* largest number written in a duration argument of the command line
MaxDuration == 1
\* largest number of command-line words the option parser consumes
MaxArgs == 2
\* largest process id NVML lists on a device
MaxPid == 2
\* largest usedGpuMemory byte count of a listed process
MaxUsed == 1
\* largest memory.total byte count of a device
MaxTotal == 1
\* largest number of processes NVML lists on a device for the Memory Watcher
MaxListed == 2

\* ------------------------------------------------------- program constants
\* errno value returned (negated) when the waiter gives up
ENOMEM == 12
\* exit(EXIT_FAILURE) of panic_on_failure
EXIT_FAILURE == 1
\* exit(EXIT_SUCCESS) of --help
EXIT_SUCCESS == 0
\* errno value returned (negated) by do_launch when execvp fails
ENOEXEC == 8
\* errno value returned (negated) when the child was killed by a signal
EINTR == 4
\* errno value returned (negated) for any other wait status; fork() may set it
EAGAIN == 11
\* errno value pipe() sets when no descriptor is left
EMFILE == 24
\* the signal armed with PR_SET_PDEATHSIG
SIGKILL == 9
\* what fork() returns to the parent
ChildPid == 2
\* what getpid() returns in glaunch
GlaunchPid == 3
\* the process group of the shell that starts glaunch without job control
ShellPgid == 1

\* static constexpr unsigned long long NoEstimation = -1
NoEstimation == ULL_MOD - 1
\* NVML_VALUE_NOT_AVAILABLE (-1) stored in an unsigned long long field
NVML_VALUE_NOT_AVAILABLE == ULL_MOD - 1
\* this->id = -1 stored in an unsigned int field
ID_NOT_AVAILABLE == UINT_MOD - 1

Unset == "unset"

VARIABLES
  config,             \* the parsed Configurations
  pc,                 \* position of main()
  clock,              \* what time(nullptr) returns
  device_count,       \* what nvmlDeviceGetCount reports on this host
  healthy,            \* no NVML query fails on this host
  start_wait_time,    \* main's start_wait_time
  nvml,               \* what NVML answered, per device index, in the last poll
  devices_,           \* get_available_devices: the sorted, unfiltered list
  available_devices,  \* main's available_devices
  time_to_sleep,      \* main's time_to_sleep
  chosen,             \* the available_devices.at(i) entries the selection loop read
  device_ids,         \* main's device_ids
  env,                \* CUDA_VISIBLE_DEVICES
  reported,           \* diagnostics written to stderr
  exit_status,        \* what main returned / exit() was given
  launched,           \* a process was forked or exec'd
  polls,              \* number of get_available_devices calls (saturating)
  has_slept,          \* sleep() has been called
  planned_sleep,      \* time_to_sleep as computed for the current pause
  sleep_began,        \* clock when the current pause was planned
  was_interrupted,    \* a sleep() call of the pause under way was interrupted
  args_size,          \* args.size(): the number of words of the command line
  break_point,        \* Configurations::break_point
  supplied,           \* the options the parser has accepted so far, in order
  devices_to_use,     \* main's devices_to_use, a string of characters
  setenv_calls,       \* number of setenv("CUDA_VISIBLE_DEVICES", ...) calls
  stderr_to,          \* where stdout/stderr of glaunch lead: terminal or pipe
  logged,             \* the diagnostics that went through the pipe to tee
  tee_running,        \* the tee helper was forked
  pid,                \* main's pid: what fork() returned to the parent
  lpc,                \* position of do_launch in the process that runs it
  pgid_set,           \* setpgid(0, 0) was called by that process
  pgid,               \* the process-group id of that process, inherited across fork
  pdeathsig,          \* PR_SET_PDEATHSIG is armed in the child
  child_end,          \* how the forked child terminated, if it has
  sigchld_ignored,    \* glaunch was started with SIGCHLD ignored
  watcher,            \* the arguments the Memory Watcher thread was given
  status,             \* main's status, as waitpid left it
  return_value,       \* main's return_value
  outcome,            \* the outcome reports of the supervisor, in order
  sample,             \* the pass of the loop of gpu_memory_watcher that is under way
  gps_nvml,           \* what NVML answers to gps, per device index
  gps                 \* main() of gps: position, loop index, devices, processes, output

vars == <<config, pc, clock, device_count, healthy, start_wait_time, nvml, devices_, available_devices,
          time_to_sleep, chosen, device_ids, env, reported, exit_status, launched,
          polls, has_slept, planned_sleep, sleep_began, was_interrupted,
          args_size, break_point, supplied, devices_to_use, setenv_calls, stderr_to, logged,
          tee_running, pid, lpc, pgid_set, pgid, pdeathsig, child_end, sigchld_ignored,
          watcher, status, return_value, outcome, sample, gps_nvml, gps>>

parser_vars == <<args_size, break_point, supplied>>

output_vars == <<stderr_to, logged, tee_running>>

process_vars == <<pid, lpc, pgid_set, pgid, pdeathsig, child_end, sigchld_ignored>>

supervisor_vars == <<watcher, status, return_value, outcome, sample>>

launch_vars == <<output_vars, process_vars, supervisor_vars>>

census_vars == <<gps_nvml, gps>>

\* ---------------------------------------------------------------- helpers
Min(a, b) == IF a < b THEN a ELSE b

Range(s) == {s[i] : i \in DOMAIN s}

Bump(n) == IF n < MaxCount THEN n + 1 ELSE n

\* static_cast<unsigned long long>(x) of a signed difference
ToULL(x) == x % ULL_MOD

\* conversion of an unsigned long long to unsigned int
ToUInt(x) == x % UINT_MOD

\* ------------------------------------------------------- the configuration
SelectionPolicy == {"BestFit", "WorstFit"}

Configurations ==
  [gpu_count : 0..MaxGpus,
   memory_estimation : (0..MaxBudget) \cup {NoEstimation},
   policy : SelectionPolicy,
   wait_memory_timeout : 0..MaxWait,
   wait_memory_interval : 0..MaxWait,
   timing : BOOLEAN,
   logging_path : {"", "log"},
   monitor_gpu_memory : 0..MaxMonitor]

\* the member initialisers of timing, logging_path and monitor_gpu_memory
LaunchDefaults(cfg) ==
  ~cfg.timing /\ cfg.logging_path = "" /\ cfg.monitor_gpu_memory = 0

\* the member initialisers of Configurations
DefaultConfiguration ==
  [gpu_count |-> 1,
   memory_estimation |-> NoEstimation,
   policy |-> "WorstFit",
   wait_memory_timeout |-> 0,
   wait_memory_interval |-> 0,
   timing |-> FALSE,
   logging_path |-> "",
   monitor_gpu_memory |-> 0]

\* ------------------------------------------------------ the option parser
\* An argument string of the command line: whether it starts with a number,
\* that number, and the characters after it.  The numbers stay small, so
\* std::stoi and std::stoull never throw std::out_of_range here and the
\* products with a suffix ratio never wrap; a duration or size has no sign.
Text(rest) == [has_number |-> FALSE, number |-> 0, rest |-> rest]

GpuArguments ==
  [has_number : {TRUE}, number : -1..MaxGpus, rest : {"", "x"}]
  \cup {Text(""), Text("x")}

DurationArguments ==
  [has_number : {TRUE}, number : 0..MaxDuration, rest : {"", "m", "H", "q"}]
  \cup {Text(""), Text("m")}

SizeArguments ==
  [has_number : {TRUE}, number : 0..MaxBudget, rest : {"", "KiB", "q"}]
  \cup {Text("")}

PolicyArguments == {Text("best"), Text("WorstFit"), Text("first")}

PathArguments == {Text(""), Text("log")}

\* tolower applied to every character
ToLower(text) ==
  CASE text = "H" -> "h"
    [] text = "KiB" -> "kib"
    [] text = "WorstFit" -> "worstfit"
    [] OTHER -> text

\* get_duration_suffix_map
DurationSuffixes == {"m", "minute", "minutes", "h", "hour", "hours", "d", "day", "days"}

DurationRatio(suffix) ==
  CASE suffix \in {"m", "minute", "minutes"} -> 60
    [] suffix \in {"h", "hour", "hours"} -> 60 * 60
    [] suffix \in {"d", "day", "days"} -> 60 * 60 * 24

\* get_size_suffix_map, the entries of one kibibyte
SizeSuffixes == {"kib", "kb", "k"}

SizeRatio(suffix) == 1024

\* std::stoi / std::stoull throw: no conversion could be performed
Throws(argument) == ~argument.has_number

\* pos != begin->size() after the conversion: characters follow the number
HasSuffix(argument) == argument.rest # ""

\* duration_saver: whether it returns, and the value it stores
DurationAccepted(argument) ==
  /\ ~Throws(argument)
  /\ HasSuffix(argument) => ToLower(argument.rest) \in DurationSuffixes

DurationValue(argument) ==
  IF HasSuffix(argument)
  THEN argument.number * DurationRatio(ToLower(argument.rest))
  ELSE argument.number

\* what duration_saver prints before exit(EXIT_FAILURE)
DurationError(argument) ==
  IF Throws(argument) THEN "invalid value" ELSE "invalid suffix"

\* full_convert_ull<unsigned int>: the int that std::stoi returned, stored in
\* an unsigned long long and cast to unsigned int (modulo 2^64, then 2^32)
FullConvert(number) == number % UINT_MOD

\* full_convert_ull returns: std::stoi converted something (pos != 0)
FullConvertAccepted(argument) == ~Throws(argument)

\* the option was written as "--name ARG" (two words) or "--name=ARG" (one)
Forms == {"separate", "joined"}

WordsOf(form) == IF form = "separate" THEN 2 ELSE 1

\* the words of the option are on the command line: the loop condition
\* break_point < args.size(), and args.size() > break_point + argument_count
\* when the argument is a word of its own
Given(words) == break_point + words <= args_size

\* argv[config.break_point] is the terminating null pointer: no PROGRAM
ProgramMissing == break_point >= args_size

\* the parser records the option and steps over its words
Consume(name, argument, words) ==
  /\ break_point + words <= MaxArgs + 1
  /\ break_point' = break_point + words
  /\ args_size' = args_size
  /\ supplied' = [n \in DOMAIN supplied \cup {name} |->
                    IF n = name THEN argument ELSE supplied[n]]

\* the parser prints a diagnostic and calls exit(EXIT_FAILURE)
Fatal(message) ==
  /\ reported' = reported \cup {message}
  /\ exit_status' = EXIT_FAILURE
  /\ pc' = "exit"

\* what no step of the parser touches
ParserFrame ==
  UNCHANGED <<clock, device_count, healthy, start_wait_time, nvml, devices_, available_devices,
              time_to_sleep, chosen, device_ids, env, launched, polls, has_slept,
              planned_sleep, sleep_began, was_interrupted, devices_to_use,
              setenv_calls, launch_vars, census_vars>>

\* --gpus
parse_gpu_count ==
  /\ pc = "parse"
  /\ \E form \in {f \in Forms : Given(WordsOf(f))}, argument \in GpuArguments :
       IF FullConvertAccepted(argument)
       THEN /\ Consume("--gpus", argument, WordsOf(form))
            /\ config' = [config EXCEPT !.gpu_count = FullConvert(argument.number)]
            /\ reported' = reported
                 \cup (IF config.gpu_count # 1 THEN {"multiple instance of option"} ELSE {})
                 \cup (IF config'.gpu_count > 16 THEN {"Amazing, you lucky guy"} ELSE {})
            /\ UNCHANGED <<pc, exit_status>>
       ELSE /\ Fatal("cannot convert")
            /\ UNCHANGED <<config, parser_vars>>
  /\ ParserFrame

\* --memory-budget
parse_memory_estimation ==
  /\ pc = "parse"
  /\ \E form \in {f \in Forms : Given(WordsOf(f))}, argument \in SizeArguments :
       IF Throws(argument)
       THEN Fatal("invalid value") /\ UNCHANGED <<config, parser_vars>>
       ELSE IF HasSuffix(argument) /\ ToLower(argument.rest) \notin SizeSuffixes
       THEN Fatal("invalid suffix") /\ UNCHANGED <<config, parser_vars>>
       ELSE /\ Consume("--memory-budget", argument, WordsOf(form))
            /\ config' = [config EXCEPT !.memory_estimation =
                            IF HasSuffix(argument)
                            THEN argument.number * SizeRatio(ToLower(argument.rest))
                            ELSE argument.number]
            /\ reported' = reported
                 \cup (IF config.memory_estimation # NoEstimation
                       THEN {"multiple instance of option"} ELSE {})
            /\ UNCHANGED <<pc, exit_status>>
  /\ ParserFrame

\* --policy
parse_policy ==
  /\ pc = "parse"
  /\ \E form \in {f \in Forms : Given(WordsOf(f))}, argument \in PolicyArguments :
       LET test == ToLower(argument.rest)
       IN  IF test \in {"worst", "worstfit", "best", "bestfit"}
           THEN /\ Consume("--policy", argument, WordsOf(form))
                /\ config' = [config EXCEPT !.policy =
                                IF test \in {"worst", "worstfit"}
                                THEN "WorstFit" ELSE "BestFit"]
                /\ UNCHANGED <<pc, exit_status, reported>>
           ELSE Fatal("invalid policy") /\ UNCHANGED <<config, parser_vars>>
  /\ ParserFrame

\* --help: prints the usage and calls exit(EXIT_SUCCESS)
help ==
  /\ pc = "parse"
  /\ Given(1)
  /\ exit_status' = EXIT_SUCCESS
  /\ pc' = "exit"
  /\ UNCHANGED <<config, parser_vars, reported>>
  /\ ParserFrame

\* --time
true_saver ==
  /\ pc = "parse"
  /\ Given(1)
  /\ Consume("--time", Text(""), 1)
  /\ config' = [config EXCEPT !.timing = TRUE]
  /\ UNCHANGED <<pc, exit_status, reported>>
  /\ ParserFrame

\* --log
parse_logging_path ==
  /\ pc = "parse"
  /\ \E form \in {f \in Forms : Given(WordsOf(f))}, argument \in PathArguments :
       /\ Consume("--log", argument, WordsOf(form))
       /\ config' = [config EXCEPT !.logging_path = argument.rest]
  /\ UNCHANGED <<pc, exit_status, reported>>
  /\ ParserFrame

\* --watch-memory: duration_saver(this->monitor_gpu_memory, ...)
watch_memory ==
  /\ pc = "parse"
  /\ \E form \in {f \in Forms : Given(WordsOf(f))}, argument \in DurationArguments :
       IF DurationAccepted(argument)
       THEN /\ Consume("--watch-memory", argument, WordsOf(form))
            /\ config' = [config EXCEPT !.monitor_gpu_memory = DurationValue(argument)]
            /\ UNCHANGED <<pc, exit_status, reported>>
       ELSE Fatal(DurationError(argument)) /\ UNCHANGED <<config, parser_vars>>
  /\ ParserFrame

\* --wait-timeout
parse_wait_memory_timeout ==
  /\ pc = "parse"
  /\ \E form \in {f \in Forms : Given(WordsOf(f))}, argument \in DurationArguments :
       IF DurationAccepted(argument)
       THEN /\ Consume("--wait-timeout", argument, WordsOf(form))
            /\ config' = [config EXCEPT
                            !.wait_memory_timeout = DurationValue(argument),
                            !.wait_memory_interval =
                               IF config.wait_memory_interval = 0 THEN 60
                               ELSE config.wait_memory_interval]
            /\ UNCHANGED <<pc, exit_status, reported>>
       ELSE Fatal(DurationError(argument)) /\ UNCHANGED <<config, parser_vars>>
  /\ ParserFrame

\* --wait-interval
parse_wait_memory_interval ==
  /\ pc = "parse"
  /\ \E form \in {f \in Forms : Given(WordsOf(f))}, argument \in DurationArguments :
       IF DurationAccepted(argument)
       THEN /\ Consume("--wait-interval", argument, WordsOf(form))
            /\ config' = [config EXCEPT
                            !.wait_memory_interval = DurationValue(argument),
                            !.wait_memory_timeout =
                               IF config.wait_memory_timeout = 0 THEN 3600
                               ELSE config.wait_memory_timeout]
            /\ UNCHANGED <<pc, exit_status, reported>>
       ELSE Fatal(DurationError(argument)) /\ UNCHANGED <<config, parser_vars>>
  /\ ParserFrame

\* parser_dispatcher: the option that takes an argument is the last word
MissingArgument ==
  /\ pc = "parse"
  /\ Given(1) /\ ~Given(2)
  /\ Fatal("expects arguments but not provided")
  /\ UNCHANGED <<config, parser_vars>>
  /\ ParserFrame

\* parser_dispatcher: the word starts with an option name but is neither the
\* name nor "name=ARG"
InvalidOptionString ==
  /\ pc = "parse"
  /\ Given(1)
  /\ Fatal("invalid option string")
  /\ UNCHANGED <<config, parser_vars>>
  /\ ParserFrame

\* the word starts with "--" and with no option name
UnrecognizedOption ==
  /\ pc = "parse"
  /\ Given(1)
  /\ Fatal("unrecognized option")
  /\ UNCHANGED <<config, parser_vars>>
  /\ ParserFrame

\* the option loop ends: the words are used up, the next word does not start
\* with "--", or it is "--" itself, which is stepped over; main goes on to
\* the wait loop
EndOfOptions ==
  /\ pc = "parse"
  /\ \E terminator \in BOOLEAN :
       /\ terminator => Given(1)
       /\ break_point' = IF terminator THEN break_point + 1 ELSE break_point
  /\ pc' = "poll"
  /\ UNCHANGED <<config, args_size, supplied, reported, exit_status>>
  /\ ParserFrame

\* ------------------------------------------------------- device inventory
\* What NVML answers for one device index: whether nvmlDeviceGetHandleByIndex,
\* nvmlDeviceGetIndex and nvmlDeviceGetMemoryInfo succeed, and the free bytes.
DeviceAnswers ==
  {[open |-> FALSE, index_ok |-> TRUE, mem_ok |-> TRUE, free |-> 0]}
  \cup [open : {TRUE}, index_ok : BOOLEAN, mem_ok : {TRUE}, free : 0..MaxFree]
  \cup [open : {TRUE}, index_ok : BOOLEAN, mem_ok : {FALSE}, free : {0}]

Snapshots(count) == [1..count -> DeviceAnswers]

\* the answers of a host: on a healthy one every query of every device succeeds
HostSnapshots(count, all_succeed) ==
  IF all_succeed
  THEN [1..count -> {a \in DeviceAnswers : a.open /\ a.index_ok /\ a.mem_ok}]
  ELSE Snapshots(count)

\* device_information::device_information(nvmlDevice_t): index i is 0-based
device_information(answers, i) ==
  [handle |-> i,
   id     |-> IF answers[i + 1].index_ok THEN i ELSE ID_NOT_AVAILABLE,
   free   |-> IF answers[i + 1].mem_ok THEN answers[i + 1].free
                                       ELSE NVML_VALUE_NOT_AVAILABLE]

\* the loop that opens the handles and emplaces one entry per opened device
RECURSIVE OpenedUpTo(_, _)
OpenedUpTo(answers, n) ==
  IF n = 0 THEN <<>>
  ELSE IF answers[n].open
       THEN Append(OpenedUpTo(answers, n - 1), device_information(answers, n - 1))
       ELSE OpenedUpTo(answers, n - 1)

Opened(answers) == OpenedUpTo(answers, Len(answers))

\* the comparator given to std::sort
SortBefore(lhs, rhs) == lhs.free > rhs.free

Permutations(s) ==
  {[i \in 1..Len(s) |-> s[p[i]]] :
     p \in {q \in [1..Len(s) -> 1..Len(s)] :
              \A a, b \in 1..Len(s) : a # b => q[a] # q[b]}}

\* std::sort is not stable: every ordering consistent with the comparator
SortOutcomes(s) ==
  {t \in Permutations(s) :
     \A i, j \in 1..Len(t) : i < j => ~SortBefore(t[j], t[i])}

\* mutant: the budget comparison admits equality
QualifiesAtLeast(cfg, device) ==
  IF cfg.memory_estimation = NoEstimation
  THEN TRUE
  ELSE cfg.memory_estimation <= device.free

\* mutant: without a budget only devices with nonzero free memory pass
QualifiesNonzero(cfg, device) ==
  IF cfg.memory_estimation = NoEstimation
  THEN device.free # 0
  ELSE cfg.memory_estimation < device.free

\* the predicate given to std::copy_if
Qualifies(cfg, device) ==
  IF cfg.memory_estimation = NoEstimation
  THEN TRUE
  ELSE cfg.memory_estimation < device.free

Filter(cfg, sorted) == SelectSeq(sorted, LAMBDA d : Qualifies(cfg, d))

\* mutant: exactly gpu_count qualifying devices are not enough
EnoughStrict(devices, cfg) == Len(devices) > cfg.gpu_count

\* mutant: the sufficiency test is off by one
EnoughOffByOne(devices, cfg) == Len(devices) + 1 >= cfg.gpu_count

\* available_devices.size() >= config.gpu_count
Enough(devices, cfg) == Len(devices) >= cfg.gpu_count

\* ----------------------------------------------------------- the waiter
\* static_cast<unsigned long long>(current_time - start_wait_time)
Elapsed(now, start) == ToULL(now - start)

\* mutant: the timeout test fires one second early
TimedOutEarly(now, start, cfg) == Elapsed(now, start) + 1 >= cfg.wait_memory_timeout

\* mutant: the timeout test is strict
TimedOutStrict(now, start, cfg) == Elapsed(now, start) > cfg.wait_memory_timeout

\* elapsed >= config.wait_memory_timeout
TimedOut(now, start, cfg) == Elapsed(now, start) >= cfg.wait_memory_timeout

\* unsigned int time_to_timeout = timeout - (current_time - start_wait_time)
TimeToTimeout(now, start, cfg) ==
  ToUInt(ToULL(cfg.wait_memory_timeout - (now - start)))

\* unsigned int time_to_sleep = time_to_timeout < interval ? time_to_timeout : interval
TimeToSleep(now, start, cfg) ==
  LET time_to_timeout == TimeToTimeout(now, start, cfg)
  IN  IF time_to_timeout < cfg.wait_memory_interval
      THEN time_to_timeout
      ELSE ToUInt(cfg.wait_memory_interval)

\* mutant: an interrupted sleep is started over with the full request
SleepReturnRestarts(requested, slept) == IF slept < requested THEN requested ELSE 0

\* mutant: an interrupted sleep counts as finished
SleepReturnDone(requested, slept) == 0

\* what sleep(requested) returns after `slept` seconds: 0 when it ran to the
\* end, the seconds left when a signal interrupted it
SleepReturn(requested, slept) == requested - slept

\* ----------------------------------------------------------- the selector
\* mutant: the policy is ignored and the selection starts at the front
SelectionStartFront(devices, cfg) == 0

\* size_t start
SelectionStart(devices, cfg) ==
  IF cfg.policy = "BestFit" THEN Len(devices) - cfg.gpu_count ELSE 0

\* the entries available_devices.at(start) .. at(start + gpu_count - 1)
Selection(devices, cfg) ==
  LET start == SelectionStart(devices, cfg)
  IN  [i \in 1..cfg.gpu_count |-> devices[start + i]]

\* std::to_string of an unsigned value: its decimal digits
DigitChars == <<"0", "1", "2", "3", "4", "5", "6", "7", "8", "9">>

RECURSIVE ToString(_)
ToString(n) ==
  IF n < 10 THEN <<DigitChars[n + 1]>>
  ELSE ToString(n \div 10) \o <<DigitChars[(n % 10) + 1]>>

\* mutant: the ids are appended without a separator
RECURSIVE DevicesToUseNoComma(_)
DevicesToUseNoComma(ids) ==
  IF ids = <<>> THEN <<>>
  ELSE DevicesToUseNoComma(SubSeq(ids, 1, Len(ids) - 1)) \o ToString(ids[Len(ids)])

\* devices_to_use after the selection loop has appended the ids in turn:
\* a ',' goes in front of an id whenever the string is not empty
RECURSIVE DevicesToUse(_)
DevicesToUse(ids) ==
  IF ids = <<>> THEN <<>>
  ELSE LET before == DevicesToUse(SubSeq(ids, 1, Len(ids) - 1))
       IN  (IF before # <<>> THEN before \o <<",">> ELSE before)
             \o ToString(ids[Len(ids)])

\* ------------------------------------------------------------------ Init
\* int status, before waitpid has written it
Uninitialized == [kind |-> "uninitialized", value |-> 0]

\* the child has not terminated
Alive == [kind |-> "alive", value |-> 0]

\* no Memory Watcher thread was started
NoWatcher == [started |-> FALSE, pid |-> 0, ids |-> <<>>]

\* the loop of gpu_memory_watcher is between two passes, in sleep_for
NoSample ==
  [taken |-> FALSE, after_return |-> FALSE, interval |-> 0, ids |-> <<>>,
   answers |-> <<>>, group |-> 0, total |-> 0]

\* the state of everything past the option parser when main() begins
Fresh ==
  /\ sample = NoSample
  /\ devices_to_use = <<>>
  /\ setenv_calls = 0
  /\ stderr_to = "terminal"
  /\ logged = {}
  /\ tee_running = FALSE
  /\ pid = 0
  /\ lpc = "none"
  /\ pgid_set = FALSE
  /\ pdeathsig = FALSE
  /\ child_end = Alive
  /\ watcher = NoWatcher
  /\ status = Uninitialized
  /\ return_value = 0
  /\ outcome = <<>>

Started ==
  /\ pc = "poll"
  /\ args_size = 2
  /\ break_point = 1
  /\ supplied = <<>>
  /\ Fresh
  /\ clock = 0
  /\ start_wait_time = 0
  /\ nvml = <<>>
  /\ devices_ = <<>>
  /\ available_devices = <<>>
  /\ time_to_sleep = 0
  /\ chosen = <<>>
  /\ device_ids = <<>>
  /\ env = Unset
  /\ reported = {}
  /\ exit_status = Unset
  /\ launched = FALSE
  /\ polls = 0
  /\ has_slept = FALSE
  /\ planned_sleep = 0
  /\ sleep_began = 0
  /\ was_interrupted = FALSE

\* --------------------------------------------------------------- actions
\* get_available_devices and the test that follows it
Poll ==
  /\ pc = "poll"
  /\ \E answers \in HostSnapshots(device_count, healthy) :
       \E sorted \in SortOutcomes(Opened(answers)) :
         /\ nvml' = answers
         /\ devices_' = sorted
         /\ available_devices' = Filter(config, sorted)
  /\ polls' = Bump(polls)
  /\ pc' = IF Enough(available_devices', config) THEN "select" ELSE "check"
  /\ UNCHANGED <<config, clock, device_count, healthy, start_wait_time, time_to_sleep, chosen, device_ids,
                 env, reported, exit_status, launched, has_slept, planned_sleep,
                 sleep_began, was_interrupted>>
  /\ UNCHANGED <<census_vars, parser_vars, devices_to_use, setenv_calls, launch_vars>>

\* panic_on_failure(nvmlDeviceGetCount, ...): the inventory as a whole fails
InventoryPanic ==
  /\ pc = "poll"
  /\ ~healthy
  /\ polls' = Bump(polls)
  /\ reported' = reported \cup {"error on nvmlDeviceGetCount"}
  /\ exit_status' = EXIT_FAILURE
  /\ pc' = "exit"
  /\ UNCHANGED <<config, clock, device_count, healthy, start_wait_time, nvml, devices_, available_devices,
                 time_to_sleep, chosen, device_ids, env, launched, has_slept,
                 planned_sleep, sleep_began, was_interrupted>>
  /\ UNCHANGED <<census_vars, parser_vars, devices_to_use, setenv_calls, launch_vars>>

\* the timeout has been reached: report and return -ENOMEM
GiveUp ==
  /\ pc = "check"
  /\ TimedOut(clock, start_wait_time, config)
  /\ reported' = reported \cup {"not enough devices"}
  /\ exit_status' = -ENOMEM
  /\ pc' = "exit"
  /\ UNCHANGED <<config, clock, device_count, healthy, start_wait_time, nvml, devices_, available_devices,
                 time_to_sleep, chosen, device_ids, env, launched, polls, has_slept,
                 planned_sleep, sleep_began, was_interrupted>>
  /\ UNCHANGED <<census_vars, parser_vars, devices_to_use, setenv_calls, launch_vars>>

\* the timeout has not been reached: compute time_to_sleep
PlanSleep ==
  /\ pc = "check"
  /\ ~TimedOut(clock, start_wait_time, config)
  /\ time_to_sleep' = TimeToSleep(clock, start_wait_time, config)
  /\ planned_sleep' = time_to_sleep'
  /\ sleep_began' = clock
  /\ was_interrupted' = FALSE
  /\ pc' = "sleep"
  /\ UNCHANGED <<config, clock, device_count, healthy, start_wait_time, nvml, devices_, available_devices,
                 chosen, device_ids, env, reported, exit_status, launched, polls,
                 has_slept>>
  /\ UNCHANGED <<census_vars, parser_vars, devices_to_use, setenv_calls, launch_vars>>

\* one pass of  while (time_to_sleep > 0) time_to_sleep = sleep(time_to_sleep);
\* the call sleeps `slept` seconds: all of them, or fewer when a signal arrives
SleepCall ==
  /\ pc = "sleep"
  /\ time_to_sleep > 0
  /\ \E slept \in 0..time_to_sleep :
       /\ clock' = clock + slept
       /\ time_to_sleep' = SleepReturn(time_to_sleep, slept)
       /\ was_interrupted' = (was_interrupted \/ slept < time_to_sleep)
  /\ has_slept' = TRUE
  /\ UNCHANGED <<config, pc, device_count, healthy, start_wait_time, nvml, devices_, available_devices,
                 chosen, device_ids, env, reported, exit_status, launched, polls,
                 planned_sleep, sleep_began>>
  /\ UNCHANGED <<census_vars, parser_vars, devices_to_use, setenv_calls, launch_vars>>

\* the sleep loop is left (or was never entered) and the outer loop starts over
SleepDone ==
  /\ pc = "sleep"
  /\ time_to_sleep = 0
  /\ \E tick \in 0..1 :
       /\ tick = 1 => planned_sleep = 0
       /\ clock' = clock + tick
  /\ was_interrupted' = FALSE
  /\ pc' = "poll"
  /\ UNCHANGED <<config, device_count, healthy, start_wait_time, nvml, devices_, available_devices,
                 time_to_sleep, chosen, device_ids, env, reported, exit_status,
                 launched, polls, has_slept, planned_sleep, sleep_began>>
  /\ UNCHANGED <<census_vars, parser_vars, devices_to_use, setenv_calls, launch_vars>>

\* the loop that builds devices_to_use and device_ids
Select ==
  /\ pc = "select"
  /\ chosen' = Selection(available_devices, config)
  /\ device_ids' = [i \in DOMAIN chosen' |-> chosen'[i].id]
  /\ devices_to_use' = DevicesToUse(device_ids')
  /\ reported' = reported \cup {"running on GPU"}
  /\ pc' = "setenv"
  /\ UNCHANGED <<config, clock, device_count, healthy, start_wait_time, nvml, devices_, available_devices,
                 time_to_sleep, env, exit_status, launched, polls, has_slept,
                 planned_sleep, sleep_began, was_interrupted>>
  /\ UNCHANGED <<census_vars, parser_vars, setenv_calls, launch_vars>>

\* setenv("CUDA_VISIBLE_DEVICES", devices_to_use.c_str(), 1)
SetEnv ==
  /\ pc = "setenv"
  /\ env' = devices_to_use
  /\ setenv_calls' = setenv_calls + 1
  /\ pc' = "launch"
  /\ UNCHANGED <<config, clock, device_count, healthy, start_wait_time, nvml, devices_, available_devices,
                 time_to_sleep, chosen, device_ids, reported, exit_status, launched,
                 polls, has_slept, planned_sleep, sleep_began, was_interrupted>>
  /\ UNCHANGED <<census_vars, parser_vars, devices_to_use, launch_vars>>

\* the rest of main: the workload is forked or exec'd
Launch ==
  /\ pc = "launch"
  /\ launched' = TRUE
  /\ pc' = "launched"
  /\ UNCHANGED <<config, clock, device_count, healthy, start_wait_time, nvml, devices_, available_devices,
                 time_to_sleep, chosen, device_ids, env, reported, exit_status,
                 polls, has_slept, planned_sleep, sleep_began, was_interrupted>>
  /\ UNCHANGED <<census_vars, parser_vars, devices_to_use, setenv_calls, launch_vars>>

\* ------------------------------------------------ the launch, lines 520-589
\* mutant: only --time makes glaunch fork
direct_exec_untimed(cfg) == ~cfg.timing

\* Configurations::direct_exec
direct_exec(cfg) == ~cfg.timing /\ cfg.monitor_gpu_memory = 0

\* mutant: the status of a process is the int its main returned
ExitByteWide(value) == value

\* the exit status a waiting parent sees: the low 8 bits of what main returned
ExitByte(value) == value % 256

\* the exit codes of the launched program
ExitCodes == {0, 1, ExitByte(-ENOEXEC)}

\* the signals that kill the child: SIGKILL and SIGTERM
Signals == {SIGKILL, 15}

\* the values of the int that waitpid fills in, as the W* macros read it
WaitStatuses ==
  [kind : {"exited"}, value : ExitCodes]
  \cup [kind : {"signaled"}, value : Signals]
  \cup {[kind |-> "other", value |-> 0]}

\* fprintf(stderr, ...) by glaunch or by its forked child, which inherits
\* the descriptors
Say(message) ==
  /\ reported' = reported \cup {message}
  /\ logged' = IF stderr_to = "pipe" THEN logged \cup {message} ELSE logged

\* perror(...); return -errno
Fail(message, errno) ==
  /\ Say(message)
  /\ exit_status' = -errno
  /\ pc' = "exit"

\* what the launch leaves alone of the waiter and the selection
LaunchFrame ==
  UNCHANGED <<config, clock, device_count, healthy, start_wait_time, nvml, devices_,
              available_devices, time_to_sleep, chosen, device_ids, env, polls,
              has_slept, planned_sleep, sleep_began, was_interrupted, parser_vars,
              devices_to_use, setenv_calls, sigchld_ignored, census_vars>>

\* if (!config.logging_path.empty()) { pipe, fork, tee, redirect }
SetupLogging ==
  /\ pc = "launch"
  /\ IF config.logging_path = ""
     THEN UNCHANGED <<stderr_to, tee_running, launched>>
     ELSE /\ tee_running' = TRUE
          /\ stderr_to' = "pipe"
          /\ launched' = TRUE
  /\ pc' = "mode"
  /\ UNCHANGED <<reported, logged, exit_status, pid, lpc, pgid_set, pgid, pdeathsig,
                 child_end, supervisor_vars>>
  /\ LaunchFrame

\* pipe(pipes) == -1
PipeFails ==
  /\ pc = "launch"
  /\ config.logging_path # ""
  /\ Fail("failed to make pipe", EMFILE)
  /\ UNCHANGED <<stderr_to, tee_running, launched, pid, lpc, pgid_set, pgid, pdeathsig,
                 child_end, supervisor_vars>>
  /\ LaunchFrame

\* fork() == -1 for the tee helper
TeeForkFails ==
  /\ pc = "launch"
  /\ config.logging_path # ""
  /\ \E errno \in {EAGAIN, ENOMEM} : Fail("cannot fork", errno)
  /\ UNCHANGED <<stderr_to, tee_running, launched, pid, lpc, pgid_set, pgid, pdeathsig,
                 child_end, supervisor_vars>>
  /\ LaunchFrame

\* if (config.direct_exec()) return do_launch(argv, config);
DirectExec ==
  /\ pc = "mode"
  /\ direct_exec(config)
  /\ lpc' = "setpgid"
  /\ pc' = "do_launch"
  /\ UNCHANGED <<reported, logged, exit_status, launched, output_vars, pid, pgid_set, pgid,
                 pdeathsig, child_end, supervisor_vars>>
  /\ LaunchFrame

\* pid_t pid = fork(); the child goes into do_launch
Fork ==
  /\ pc = "mode"
  /\ ~direct_exec(config)
  /\ pid' = ChildPid
  /\ lpc' = "setpgid"
  /\ launched' = TRUE
  /\ pc' = "gettime"
  /\ UNCHANGED <<reported, exit_status, output_vars, pgid_set, pgid, pdeathsig, child_end,
                 supervisor_vars>>
  /\ LaunchFrame

\* fork() == -1 for the workload
ForkFails ==
  /\ pc = "mode"
  /\ ~direct_exec(config)
  /\ \E errno \in {EAGAIN, ENOMEM} : Fail("cannot fork", errno)
  /\ UNCHANGED <<stderr_to, tee_running, launched, pid, lpc, pgid_set, pgid, pdeathsig,
                 child_end, supervisor_vars>>
  /\ LaunchFrame

\* the process that runs do_launch is running: glaunch itself in direct mode,
\* the forked child otherwise
Launching ==
  IF direct_exec(config) THEN pc = "do_launch" ELSE pid # 0 /\ child_end = Alive

\* getpid() in the process that runs do_launch
LauncherPid(cfg) == IF direct_exec(cfg) THEN GlaunchPid ELSE ChildPid

\* mutant: setpgid(0, 0) leaves the process in the group it was in
SetPgidKeeps(own, group) == group

\* setpgid(0, 0) by the process `own`, a member of `group`: the process
\* becomes the leader of the group named by its own pid; for a session leader
\* the call fails with EPERM, and its group is the one of its pid already
SetPgid(own, group) == own

\* do_launch: setpgid(0, 0)
do_setpgid ==
  /\ Launching
  /\ lpc = "setpgid"
  /\ pgid_set' = TRUE
  /\ pgid' = SetPgid(LauncherPid(config), pgid)
  /\ lpc' = IF direct_exec(config) THEN "announce" ELSE "prctl"
  /\ UNCHANGED <<pc, reported, exit_status, launched, output_vars, pid, pdeathsig,
                 child_end, supervisor_vars>>
  /\ LaunchFrame

\* do_launch: prctl(PR_SET_PDEATHSIG, SIGKILL); it arms the signal for the
\* death of the parent from now on and sends nothing for a parent already dead
do_prctl ==
  /\ Launching
  /\ lpc = "prctl"
  /\ pdeathsig' = TRUE
  /\ lpc' = "announce"
  /\ UNCHANGED <<pc, reported, exit_status, launched, output_vars, pid, pgid_set, pgid,
                 child_end, supervisor_vars>>
  /\ LaunchFrame

\* do_launch: fprintf(stderr, "executing: [...]")
do_announce ==
  /\ Launching
  /\ lpc = "announce"
  /\ Say("executing")
  /\ lpc' = "exec"
  /\ UNCHANGED <<pc, exit_status, launched, stderr_to, tee_running, pid, pgid_set, pgid,
                 pdeathsig, child_end, supervisor_vars>>
  /\ LaunchFrame

\* do_launch: execvp succeeds and the launched program runs in this process
ExecSucceeds ==
  /\ Launching
  /\ lpc = "exec"
  /\ lpc' = "program"
  /\ launched' = TRUE
  /\ pc' = IF direct_exec(config) THEN "replaced" ELSE pc
  /\ UNCHANGED <<reported, exit_status, output_vars, pid, pgid_set, pgid, pdeathsig,
                 child_end, supervisor_vars>>
  /\ LaunchFrame

\* do_launch: execvp returns; perror("failed to exec"); return -ENOEXEC, which
\* main returns in turn
ExecFails ==
  /\ Launching
  /\ lpc = "exec"
  /\ Say("failed to exec")
  /\ lpc' = "returned"
  /\ IF direct_exec(config)
     THEN /\ exit_status' = -ENOEXEC
          /\ pc' = "exit"
          /\ UNCHANGED child_end
     ELSE /\ child_end' = [kind |-> "exited", value |-> ExitByte(-ENOEXEC)]
          /\ UNCHANGED <<exit_status, pc>>
  /\ UNCHANGED <<launched, stderr_to, tee_running, pid, pgid_set, pgid, pdeathsig,
                 supervisor_vars>>
  /\ LaunchFrame

\* the launched program, running in the forked child, exits
ProgramExits ==
  /\ pid # 0
  /\ child_end = Alive
  /\ lpc = "program"
  /\ \E code \in ExitCodes : child_end' = [kind |-> "exited", value |-> code]
  /\ lpc' = "ended"
  /\ UNCHANGED <<pc, reported, exit_status, launched, output_vars, pid, pgid_set, pgid,
                 pdeathsig, supervisor_vars>>
  /\ LaunchFrame

\* the forked child is killed by a signal, before or after its exec
ChildKilled ==
  /\ pid # 0
  /\ child_end = Alive
  /\ \E signal \in Signals : child_end' = [kind |-> "signaled", value |-> signal]
  /\ lpc' = "ended"
  /\ UNCHANGED <<pc, reported, exit_status, launched, output_vars, pid, pgid_set, pgid,
                 pdeathsig, supervisor_vars>>
  /\ LaunchFrame

\* clock_gettime; if (monitor_gpu_memory != 0) std::thread(gpu_memory_watcher,
\* pid, std::ref(device_ids), std::ref(config)).detach()
StartWatcher ==
  /\ pc = "gettime"
  /\ watcher' = IF config.monitor_gpu_memory # 0
                THEN [started |-> TRUE, pid |-> pid, ids |-> device_ids]
                ELSE watcher
  /\ pc' = "waitpid"
  /\ UNCHANGED <<reported, exit_status, launched, output_vars, process_vars, status,
                 return_value, outcome, sample>>
  /\ LaunchFrame

\* waitpid(pid, &status, 0) returns pid once the child has terminated
WaitReturns ==
  /\ pc = "waitpid"
  /\ ~sigchld_ignored
  /\ child_end # Alive
  /\ status' = child_end
  /\ pc' = "classify"
  /\ UNCHANGED <<reported, exit_status, launched, output_vars, process_vars, watcher,
                 return_value, outcome, sample>>
  /\ LaunchFrame

\* waitpid(pid, &status, 0) returns -1 with ECHILD once the child has
\* terminated: SIGCHLD is ignored, so the child left no status behind; the
\* return value is not looked at and status is not written
WaitFails ==
  /\ pc = "waitpid"
  /\ sigchld_ignored
  /\ child_end # Alive
  /\ pc' = "classify"
  /\ UNCHANGED <<reported, exit_status, launched, output_vars, process_vars,
                 supervisor_vars>>
  /\ LaunchFrame

\* the report and return value for the status s
Classification(s) ==
  CASE s.kind = "exited" ->
         [report |-> "program exited with code", value |-> s.value, returns |-> s.value]
    [] s.kind = "signaled" ->
         [report |-> "program killed with signal", value |-> s.value, returns |-> -EINTR]
    [] OTHER ->
         [report |-> "program terminated, but how?", value |-> 0, returns |-> -EAGAIN]

\* the WIFEXITED / WIFSIGNALED chain; an int status that was never written
\* holds any value
Classify ==
  /\ pc = "classify"
  /\ \E s \in (IF status = Uninitialized THEN WaitStatuses ELSE {status}) :
       LET c == Classification(s)
       IN  /\ Say(c.report)
           /\ outcome' = Append(outcome, [report |-> c.report, value |-> c.value])
           /\ return_value' = c.returns
  /\ pc' = "timing"
  /\ UNCHANGED <<exit_status, launched, stderr_to, tee_running, process_vars, watcher,
                 status, sample>>
  /\ LaunchFrame

\* if (config.timing) report the elapsed time; return return_value
ReportTime ==
  /\ pc = "timing"
  /\ IF config.timing THEN Say("elapsed time") ELSE UNCHANGED <<reported, logged>>
  /\ exit_status' = return_value
  /\ pc' = "exit"
  /\ UNCHANGED <<launched, stderr_to, tee_running, process_vars, supervisor_vars>>
  /\ LaunchFrame

\* the supervising glaunch process dies after the fork; the kernel sends the
\* armed parent-death signal to the child
SupervisorDies ==
  /\ pc \in {"gettime", "waitpid", "classify", "timing"}
  /\ pc' = "dead"
  /\ IF pdeathsig /\ child_end = Alive
     THEN /\ child_end' = [kind |-> "signaled", value |-> SIGKILL]
          /\ lpc' = "ended"
     ELSE UNCHANGED <<child_end, lpc>>
  /\ UNCHANGED <<reported, exit_status, launched, output_vars, pid, pgid_set, pgid,
                 pdeathsig, supervisor_vars>>
  /\ LaunchFrame

\* ------------------------------------- the Memory Watcher, lines 388-421
\* A compute process NVML lists on a device, as the watcher sees it: what
\* getpgid(process.pid) returns and its usedGpuMemory.  A listed process is
\* in the group the child leads or in the group glaunch was started in.
WatchedProcesses == [pgid : {ChildPid, ShellPgid}, usedGpuMemory : 1..MaxUsed]

WatchLists == UNION {[1..n -> WatchedProcesses] : n \in 0..MaxListed}

\* What NVML answers to one pass of the watcher for one device id: whether
\* nvmlDeviceGetHandleByIndex succeeds, whether the loop of
\* get_processes_on_device ends with the list (the query succeeds and realloc
\* does), and the list.
WatchAnswers ==
  {[open |-> FALSE, list_ok |-> FALSE, procs |-> <<>>],
   [open |-> TRUE, list_ok |-> FALSE, procs |-> <<>>]}
  \cup [open : {TRUE}, list_ok : {TRUE}, procs : WatchLists]

\* get_processes_on_device: the status and the vector it returns
get_processes_on_device(answer) ==
  IF answer.list_ok
  THEN [status |-> "NVML_SUCCESS", processes |-> answer.procs]
  ELSE [status |-> "NVML_ERROR", processes |-> <<>>]

\* the loop over the processes of one device: total_memory += usedGpuMemory
\* for every process with getpgid(process.pid) == pid
RECURSIVE AddProcesses(_, _, _)
AddProcesses(total_memory, processes, group) ==
  IF processes = <<>> THEN total_memory
  ELSE AddProcesses(
         IF processes[1].pgid = group
         THEN ToULL(total_memory + processes[1].usedGpuMemory)
         ELSE total_memory,
         SubSeq(processes, 2, Len(processes)), group)

\* the loop over device_ids, from position k on: a device that does not open
\* or does not list its processes is skipped
RECURSIVE AddDevices(_, _, _, _)
AddDevices(total_memory, answers, k, group) ==
  IF k > Len(answers) THEN total_memory
  ELSE IF ~answers[k].open THEN AddDevices(total_memory, answers, k + 1, group)
  ELSE LET listed == get_processes_on_device(answers[k])
       IN  IF listed.status # "NVML_SUCCESS"
           THEN AddDevices(total_memory, answers, k + 1, group)
           ELSE AddDevices(AddProcesses(total_memory, listed.processes, group),
                           answers, k + 1, group)

\* what a vector<unsigned int> that has been destroyed reads as
AnyIds == UNION {[1..n -> 0..MaxDevices - 1] : n \in 0..MaxGpus}

\* main has returned: device_ids and config, which the thread holds by
\* reference, are destroyed, while exit() has not yet ended the process
Returned == pc = "exit"

\* the process exists, and its threads with it
Running == pc \in {"waitpid", "classify", "timing", "exit"}

\* One pass of the loop of gpu_memory_watcher, lines 392-413: sleep_for
\* returns and total_memory is summed over device_ids.  The thread runs as
\* long as the process exists.  Once main has returned, the reads of config
\* and device_ids are reads of destroyed objects: they yield any value, or
\* the thread faults and the process is killed.
Sample ==
  /\ watcher.started
  /\ Running
  /\ ~sample.taken
  /\ \E fault \in {f \in BOOLEAN : f => Returned},
        ids \in (IF Returned THEN AnyIds ELSE {device_ids}),
        interval \in (IF Returned THEN 0..MaxMonitor ELSE {config.monitor_gpu_memory}) :
       IF fault
       THEN /\ pc' = "dead"
            /\ UNCHANGED sample
       ELSE \E answers \in [1..Len(ids) -> WatchAnswers] :
              /\ sample' = [taken |-> TRUE, after_return |-> Returned,
                            interval |-> interval, ids |-> ids, answers |-> answers,
                            group |-> pgid,
                            total |-> AddDevices(0, answers, 1, watcher.pid)]
              /\ pc' = pc
  /\ UNCHANGED <<reported, logged, exit_status, launched, stderr_to, tee_running,
                 process_vars, watcher, status, return_value, outcome>>
  /\ LaunchFrame

\* the end of the pass, lines 414-419: the total is logged with a timestamp
\* and the loop starts over
ReportSample ==
  /\ Running
  /\ sample.taken
  /\ Say("GPU memory in use")
  /\ sample' = NoSample
  /\ UNCHANGED <<pc, exit_status, launched, stderr_to, tee_running, process_vars,
                 watcher, status, return_value, outcome>>
  /\ LaunchFrame

\* exit(), which main's return leads to, ends the process and its threads
ProcessEnds ==
  /\ pc = "exit"
  /\ pc' = "ended"
  /\ UNCHANGED <<reported, logged, exit_status, launched, stderr_to, tee_running,
                 process_vars, supervisor_vars>>
  /\ LaunchFrame

\* ------------------------------------------- gps: the process census
\* the process ids NVML lists
Pids == 1..MaxPid

\* the array nvmlDeviceGetComputeRunningProcesses fills in: the listed process
\* ids, each with its usedGpuMemory
ProcessLists == UNION {[listed -> 0..MaxUsed] : listed \in SUBSET Pids}

\* What NVML answers to gps for one device index: whether
\* nvmlDeviceGetHandleByIndex_v2 succeeds, whether the list of compute
\* processes is obtained (the query succeeds and realloc does), memory.total
\* and the list.  nvmlDeviceGetIndex, nvmlDeviceGetName and
\* nvmlDeviceGetMemoryInfo succeed on this host.
CensusAnswers ==
  {[open |-> FALSE, list_ok |-> FALSE, total |-> 1, procs |-> <<>>]}
  \cup [open : {TRUE}, list_ok : {FALSE}, total : 1..MaxTotal, procs : {<<>>}]
  \cup [open : {TRUE}, list_ok : {TRUE}, total : 1..MaxTotal, procs : ProcessLists]

\* gps.cc's device_information(nvmlDevice_t) of device index i (0-based); the
\* name NVML reports is one per device and stands as the index
gps_device_information(answers, i) ==
  [id |-> i, name |-> i, total |-> answers[i + 1].total]

\* process_information::host_device
host_device(id, memory_used) == [id |-> id, memory_used |-> memory_used]

\* the loop at 356-363: every listed process gets the entry (i, usedGpuMemory)
\* appended to its devices, and is emplaced first if it is new
Record(processes, i, procs) ==
  [q \in DOMAIN processes \cup DOMAIN procs |->
     IF q \in DOMAIN procs
     THEN Append(IF q \in DOMAIN processes THEN processes[q] ELSE <<>>,
                 host_device(i, procs[q]))
     ELSE processes[q]]

\* total_gpu_memory, the sum of memory_used over the entries of a process
RECURSIVE TotalGpuMemory(_)
TotalGpuMemory(entries) ==
  IF entries = <<>> THEN 0
  ELSE ToULL(TotalGpuMemory(SubSeq(entries, 1, Len(entries) - 1))
             + entries[Len(entries)].memory_used)

\* devices.at(device.id): the element at position device.id of the vector
DeviceAt(devices, id) == devices[id + 1]

\* the per-device lines of a process, up to the first devices.at() that throws
\* std::out_of_range
RECURSIVE DeviceLines(_, _)
DeviceLines(devices, entries) ==
  IF entries = <<>> THEN <<>>
  ELSE IF entries[1].id >= Len(devices) THEN <<>>
  ELSE <<[id |-> DeviceAt(devices, entries[1].id).id,
          name |-> DeviceAt(devices, entries[1].id).name,
          total |-> DeviceAt(devices, entries[1].id).total,
          memory_used |-> entries[1].memory_used]>>
       \o DeviceLines(devices, SubSeq(entries, 2, Len(entries)))

\* some devices.at(device.id) of the process throws
Throwing(devices, entries) ==
  \E k \in DOMAIN entries : entries[k].id >= Len(devices)

\* gps is not running
NoCensus ==
  /\ gps_nvml = <<>>
  /\ gps = [pc |-> "none", i |-> 0, devices |-> <<>>, processes |-> <<>>, printed |-> <<>>]

\* what gps does not touch: all of glaunch
CensusFrame ==
  UNCHANGED <<config, pc, clock, device_count, healthy, start_wait_time, nvml, devices_,
              available_devices, time_to_sleep, chosen, device_ids, env, reported,
              exit_status, launched, polls, has_slept, planned_sleep, sleep_began,
              was_interrupted, parser_vars, devices_to_use, setenv_calls, launch_vars,
              gps_nvml>>

\* one pass of the loop over the device indices, lines 317-366
ScanDevice ==
  /\ gps.pc = "scan"
  /\ gps.i < Len(gps_nvml)
  /\ LET a == gps_nvml[gps.i + 1]
     IN  gps' = [gps EXCEPT
                   !.i = gps.i + 1,
                   !.devices = IF a.open
                               THEN Append(gps.devices, gps_device_information(gps_nvml, gps.i))
                               ELSE gps.devices,
                   !.processes = IF a.open /\ a.list_ok
                                 THEN Record(gps.processes, gps.i, a.procs)
                                 ELSE gps.processes]
  /\ CensusFrame

\* the loop over the device indices ends
ScanDone ==
  /\ gps.pc = "scan"
  /\ gps.i = Len(gps_nvml)
  /\ gps' = [gps EXCEPT !.pc = "print"]
  /\ CensusFrame

\* one pass of the loop over the map, lines 367-434: the record of the next
\* process id; an uncaught std::out_of_range ends gps in std::terminate
PrintRecord ==
  /\ gps.pc = "print"
  /\ Len(gps.printed) < Cardinality(DOMAIN gps.processes)
  /\ LET done == {gps.printed[k].pid : k \in DOMAIN gps.printed}
         next == CHOOSE q \in DOMAIN gps.processes \ done :
                   \A r \in DOMAIN gps.processes \ done : q <= r
         entries == gps.processes[next]
     IN  gps' = [gps EXCEPT
                   !.printed = Append(gps.printed,
                                 [pid |-> next,
                                  count |-> Len(entries),
                                  total |-> TotalGpuMemory(entries),
                                  lines |-> DeviceLines(gps.devices, entries)]),
                   !.pc = IF Throwing(gps.devices, entries) THEN "aborted" ELSE "print"]
  /\ CensusFrame

\* the loop over the map ends: nvmlShutdown(); return 0
PrintDone ==
  /\ gps.pc = "print"
  /\ Len(gps.printed) = Cardinality(DOMAIN gps.processes)
  /\ gps' = [gps EXCEPT !.pc = "done"]
  /\ CensusFrame

\* glaunch with any wait options and no launch options, on a host of up to WaitDevices devices
Init ==
  /\ config \in {c \in Configurations : LaunchDefaults(c)}
  /\ device_count \in 0..WaitDevices
  /\ healthy = FALSE
  /\ sigchld_ignored = FALSE
  /\ pgid = GlaunchPid
  /\ NoCensus
  /\ Started

\* glaunch without wait or launch options, on a host of up to MaxDevices devices
InitSelect ==
  /\ config \in {c \in Configurations :
                   /\ c.wait_memory_timeout = 0 /\ c.wait_memory_interval = 0
                   /\ LaunchDefaults(c)}
  /\ device_count \in 0..MaxDevices
  /\ healthy = FALSE
  /\ sigchld_ignored = FALSE
  /\ pgid = GlaunchPid
  /\ NoCensus
  /\ Started

Next ==
  \/ Poll
  \/ InventoryPanic
  \/ GiveUp
  \/ PlanSleep
  \/ SleepCall
  \/ SleepDone
  \/ Select
  \/ SetEnv
  \/ Launch

NextSelect ==
  \/ Poll
  \/ InventoryPanic
  \/ GiveUp
  \/ Select
  \/ SetEnv
  \/ Launch

\* the Configurations constructor, on any command line of up to MaxArgs
\* option words, followed by one more word or by none
InitParse ==
  /\ config = DefaultConfiguration
  /\ device_count = 0
  /\ healthy = FALSE
  /\ clock = 0 /\ start_wait_time = 0 /\ nvml = <<>> /\ devices_ = <<>>
  /\ available_devices = <<>> /\ time_to_sleep = 0 /\ chosen = <<>>
  /\ device_ids = <<>> /\ env = Unset /\ reported = {} /\ exit_status = Unset
  /\ launched = FALSE /\ polls = 0 /\ has_slept = FALSE /\ planned_sleep = 0
  /\ sleep_began = 0 /\ was_interrupted = FALSE
  /\ pc = "parse"
  /\ args_size \in 1..MaxArgs + 2
  /\ break_point = 1
  /\ supplied = <<>>
  /\ sigchld_ignored = FALSE
  /\ pgid = GlaunchPid
  /\ NoCensus
  /\ Fresh

NextParse ==
  \/ parse_gpu_count
  \/ parse_memory_estimation
  \/ parse_policy
  \/ help
  \/ true_saver
  \/ parse_logging_path
  \/ watch_memory
  \/ parse_wait_memory_timeout
  \/ parse_wait_memory_interval
  \/ MissingArgument
  \/ InvalidOptionString
  \/ UnrecognizedOption
  \/ EndOfOptions

\* glaunch with any launch options and no wait options, budget or policy, on a
\* host of up to MaxDevices devices where no NVML query fails, started with
\* SIGCHLD at its default or ignored, as the leader of its process group or as
\* a member of the shell's
InitLaunch ==
  /\ config \in {c \in Configurations :
                   /\ c.wait_memory_timeout = 0 /\ c.wait_memory_interval = 0
                   /\ c.memory_estimation = NoEstimation
                   /\ c.policy = "WorstFit"}
  /\ device_count \in 0..MaxDevices
  /\ healthy = TRUE
  /\ sigchld_ignored \in BOOLEAN
  /\ pgid \in {GlaunchPid, ShellPgid}
  /\ NoCensus
  /\ Started

NextLaunch ==
  \/ Poll
  \/ GiveUp
  \/ Select
  \/ SetEnv
  \/ SetupLogging
  \/ PipeFails
  \/ TeeForkFails
  \/ DirectExec
  \/ Fork
  \/ ForkFails
  \/ do_setpgid
  \/ do_prctl
  \/ do_announce
  \/ ExecSucceeds
  \/ ExecFails
  \/ ProgramExits
  \/ ChildKilled
  \/ StartWatcher
  \/ WaitReturns
  \/ WaitFails
  \/ Classify
  \/ ReportTime
  \/ SupervisorDies

\* gps on a host of up to MaxDevices devices, after nvmlDeviceGetCount_v2;
\* glaunch is not part of it
InitCensus ==
  /\ config = DefaultConfiguration
  /\ device_count = 0
  /\ healthy = FALSE
  /\ sigchld_ignored = FALSE
  /\ pgid = GlaunchPid
  /\ Started
  /\ gps_nvml \in UNION {[1..count -> CensusAnswers] : count \in 0..MaxDevices}
  /\ gps = [pc |-> "scan", i |-> 0, devices |-> <<>>, processes |-> <<>>, printed |-> <<>>]

NextCensus ==
  \/ ScanDevice
  \/ ScanDone
  \/ PrintRecord
  \/ PrintDone

\* glaunch --watch-memory on a host of up to MaxDevices devices where no NVML
\* query of the inventory fails, without logging, timing or wait options,
\* together with its watcher thread
InitWatch ==
  /\ config \in {c \in Configurations :
                   /\ c.wait_memory_timeout = 0 /\ c.wait_memory_interval = 0
                   /\ c.memory_estimation = NoEstimation
                   /\ c.policy = "WorstFit"
                   /\ ~c.timing /\ c.logging_path = ""
                   /\ c.monitor_gpu_memory # 0}
  /\ device_count \in 0..MaxDevices
  /\ healthy = TRUE
  /\ sigchld_ignored = FALSE
  /\ pgid \in {GlaunchPid, ShellPgid}
  /\ NoCensus
  /\ Started

NextWatch ==
  \/ Poll
  \/ GiveUp
  \/ Select
  \/ SetEnv
  \/ SetupLogging
  \/ Fork
  \/ ForkFails
  \/ do_setpgid
  \/ do_prctl
  \/ do_announce
  \/ ExecSucceeds
  \/ ExecFails
  \/ ProgramExits
  \/ ChildKilled
  \/ StartWatcher
  \/ WaitReturns
  \/ Classify
  \/ ReportTime
  \/ SupervisorDies
  \/ Sample
  \/ ReportSample
  \/ ProcessEnds

\* glaunch with any wait options and no launch options, on a host of up to
\* WaitDevices devices where every NVML call succeeds
InitWait ==
  /\ config \in {c \in Configurations : LaunchDefaults(c)}
  /\ device_count \in 0..WaitDevices
  /\ healthy = TRUE
  /\ sigchld_ignored = FALSE
  /\ pgid = GlaunchPid
  /\ NoCensus
  /\ Started

\* the wait loop alone
NextWait ==
  \/ Poll
  \/ GiveUp
  \/ PlanSleep
  \/ SleepCall
  \/ SleepDone

\* a sleep() call lets at least one second pass
SleepAdvances == SleepCall /\ clock' > clock

\* the clock ticks during a pass of the loop that does not sleep
BusyTick == SleepDone /\ clock' > clock

\* The process is scheduled: every step of the loop that can be taken is
\* taken.  Wall-clock time keeps advancing: signals do not cut every sleep()
\* call short before a second has passed, and a loop that polls without
\* sleeping does not go on forever within the same second.
WaitFairness ==
  /\ WF_vars(Poll)
  /\ WF_vars(GiveUp)
  /\ WF_vars(PlanSleep)
  /\ WF_vars(SleepDone)
  /\ WF_vars(SleepAdvances)
  /\ SF_vars(BusyTick)

Spec == Init /\ [][Next]_vars

SpecWait == InitWait /\ [][NextWait]_vars /\ WaitFairness

SpecWatch == InitWatch /\ [][NextWatch]_vars

SpecCensus == InitCensus /\ [][NextCensus]_vars

SpecLaunch == InitLaunch /\ [][NextLaunch]_vars

SpecParse == InitParse /\ [][NextParse]_vars

SpecSelect == InitSelect /\ [][NextSelect]_vars

\* ================================================================ claims
\* the selection loop has run
SelectionBuilt == pc \in {"setenv", "launch", "launched"}

\* the budget filter as the specification states it
PassesBudget(device) ==
  \/ config.memory_estimation = NoEstimation
  \/ device.free > config.memory_estimation

\* the devices of the snapshot that pass the filter and were not selected
NotChosenQualifying ==
  {d \in Range(devices_) :
     PassesBudget(d) /\ \A i \in DOMAIN chosen : chosen[i].handle # d.handle}

\* C1: once the selection is built it holds exactly gpu_count device ids, the
\* ids are pairwise distinct, each is the index of a device that the snapshot
\* holds, and each selected device passes the budget filter.
C1_SelectionWellFormed ==
  SelectionBuilt =>
    /\ Len(device_ids) = config.gpu_count
    /\ \A i, j \in DOMAIN device_ids : i # j => device_ids[i] # device_ids[j]
    /\ \A i \in DOMAIN device_ids :
         /\ \E n \in DOMAIN nvml : nvml[n].open /\ device_ids[i] = n - 1
         /\ PassesBudget(chosen[i])

\* C2: once the selection is built, under WorstFit every selected device has
\* at least the free memory of every qualifying device left out, and under
\* BestFit at most.
C2_PolicyOrder ==
  SelectionBuilt =>
    \A i \in DOMAIN chosen : \A d \in NotChosenQualifying :
      /\ config.policy = "WorstFit" => chosen[i].free >= d.free
      /\ config.policy = "BestFit" => chosen[i].free <= d.free

\* C2 witness: BestFit left out a qualifying device with strictly more free
\* memory than a selected one.
C2_Witness ==
  /\ SelectionBuilt
  /\ config.policy = "BestFit"
  /\ \E i \in DOMAIN chosen : \E d \in NotChosenQualifying : chosen[i].free < d.free

\* C3: glaunch returns -ENOMEM only with fewer than gpu_count qualifying
\* devices, and then nothing was selected, CUDA_VISIBLE_DEVICES is unset,
\* nothing was forked or exec'd and the shortage was reported; a selection is
\* only ever built from at least gpu_count qualifying devices, and a reported
\* shortage always ends in -ENOMEM.
C3_NoPartialSelection ==
  /\ (pc = "exit" /\ exit_status = -ENOMEM) =>
       /\ Len(available_devices) < config.gpu_count
       /\ chosen = <<>> /\ device_ids = <<>>
       /\ env = Unset
       /\ ~launched
       /\ "not enough devices" \in reported
  /\ "not enough devices" \in reported => (pc = "exit" /\ exit_status = -ENOMEM)
  /\ pc \in {"select", "setenv", "launch", "launched"} =>
       Len(available_devices) >= config.gpu_count
  /\ pc \in {"check", "sleep"} => Len(available_devices) < config.gpu_count

\* C3 witness: the waiter gave up while one device qualified and two were asked.
C3_Witness ==
  /\ pc = "exit" /\ exit_status = -ENOMEM
  /\ Len(available_devices) = 1
  /\ config.gpu_count = 2

\* C4: with a budget given, the qualifying devices are exactly the snapshot's
\* devices with free memory strictly above the budget, and only such devices
\* are selected.
C4_StrictBudget ==
  config.memory_estimation # NoEstimation =>
    /\ Range(available_devices) =
         {d \in Range(devices_) : d.free > config.memory_estimation}
    /\ \A i \in DOMAIN chosen : chosen[i].free > config.memory_estimation

\* C4 witness: a device with free memory equal to the budget was left out while
\* another device was selected.
C4_Witness ==
  /\ SelectionBuilt
  /\ config.memory_estimation # NoEstimation
  /\ chosen # <<>>
  /\ \E d \in Range(devices_) :
       d.free = config.memory_estimation /\ d \notin Range(available_devices)

\* C5 as claimed: without a budget, the qualifying devices are exactly the
\* snapshot's devices with nonzero free memory, and only such are selected.
C5_NonzeroFreeQualifies ==
  config.memory_estimation = NoEstimation =>
    /\ Range(available_devices) = {d \in Range(devices_) : d.free # 0}
    /\ \A i \in DOMAIN chosen : chosen[i].free # 0

\* C5 as amended: without a budget every device of the snapshot qualifies,
\* whatever its free memory.
C5_EveryDeviceQualifies ==
  config.memory_estimation = NoEstimation => available_devices = devices_

\* C5 witness: without a budget, a device with zero free bytes was selected.
C5_Witness ==
  /\ SelectionBuilt
  /\ config.memory_estimation = NoEstimation
  /\ \E i \in DOMAIN chosen : chosen[i].free = 0

\* C6: a device that fails to open or to report its memory is in none of the
\* lists and is never selected, and every other device is evaluated.
C6_FailedDevicesSkipped ==
  /\ \A d \in Range(devices_) \cup Range(available_devices) \cup Range(chosen) :
       nvml[d.handle + 1].open /\ nvml[d.handle + 1].mem_ok
  /\ \A n \in DOMAIN nvml :
       (nvml[n].open /\ nvml[n].mem_ok) =>
         \E d \in Range(devices_) : d.handle = n - 1

\* C7: with wait_timeout = 0 there is at most one poll, never a sleep, and
\* glaunch has polled exactly once when it exits.
C7_ZeroTimeoutOnePoll ==
  config.wait_memory_timeout = 0 =>
    /\ polls <= 1
    /\ ~has_slept
    /\ pc # "sleep"
    /\ pc = "exit" => polls = 1

\* C7 witness: wait_timeout = 0 with a nonzero interval, and the waiter gave up.
C7_Witness ==
  /\ config.wait_memory_timeout = 0
  /\ config.wait_memory_interval > 0
  /\ pc = "exit" /\ exit_status = -ENOMEM

\* C8: when the waiter gives up, at most wait_timeout + wait_interval seconds
\* have passed since the wait began.
C8_FailureWithinSlack ==
  (pc = "exit" /\ exit_status = -ENOMEM) =>
    clock - start_wait_time
      <= config.wait_memory_timeout + config.wait_memory_interval

\* C8 witness: the waiter gave up at or after the timeout, having polled more
\* than once, with an interval shorter than the timeout.
C8_Witness ==
  /\ pc = "exit" /\ exit_status = -ENOMEM
  /\ polls >= 2
  /\ clock - start_wait_time >= config.wait_memory_timeout
  /\ config.wait_memory_timeout > config.wait_memory_interval
  /\ config.wait_memory_interval > 0

\* C9: the pause planned after an unsuccessful poll is
\* min(wait_interval, wait_timeout - elapsed).
C9_SleepIsMin ==
  pc = "sleep" =>
    planned_sleep =
      Min(config.wait_memory_interval,
          config.wait_memory_timeout - (sleep_began - start_wait_time))

\* C10: while the waiter pauses, the seconds slept plus the seconds still to
\* sleep are the planned pause, and the next poll starts only when the whole
\* planned pause has passed.
C10_InterruptedSleepResumes ==
  /\ pc = "sleep" => (clock - sleep_began) + time_to_sleep = planned_sleep
  /\ (pc = "poll" /\ polls > 0) => clock - sleep_began >= planned_sleep

\* C10 witness: a pause of at least two seconds was interrupted, resumed and
\* has run to its end.
C10_Witness ==
  /\ pc = "sleep" /\ time_to_sleep = 0
  /\ was_interrupted
  /\ planned_sleep >= 2

\* C11: a poll that yields at least gpu_count qualifying devices goes straight
\* to the selection, on the first tick as on any later one: between that poll
\* and the selection the clock is not read, nothing sleeps, nothing is reported
\* and glaunch does not exit, whatever time has passed since the wait began.
C11_SufficientPollSelects ==
  [][/\ (pc = "poll" /\ pc' # "exit"
          /\ Len(available_devices') >= config.gpu_count) =>
          /\ pc' = "select"
          /\ clock' = clock
          /\ has_slept' = has_slept
          /\ reported' = reported
          /\ exit_status' = exit_status
     /\ pc = "select" =>
          /\ pc' = "setenv"
          /\ clock' = clock
          /\ has_slept' = has_slept
          /\ exit_status' = exit_status
          /\ Len(device_ids') = config.gpu_count]_vars

\* C11 witness: a poll taken after a pause, with the timeout already reached,
\* found enough devices and the selection is next.
C11_Witness ==
  /\ pc = "select"
  /\ has_slept
  /\ config.wait_memory_timeout > 0
  /\ clock - start_wait_time >= config.wait_memory_timeout

\* one of the two wait options has been accepted by the parser
WaitOptionSupplied == {"--wait-timeout", "--wait-interval"} \cap DOMAIN supplied # {}

\* C12: once --wait-timeout or --wait-interval has been accepted, neither of
\* wait_memory_timeout and wait_memory_interval is zero while the other is
\* not, and a field whose option was not supplied holds its default, 3600 s
\* for the timeout and 60 s for the interval.
C12_WaitFieldsCoupled ==
  WaitOptionSupplied =>
    /\ ~(config.wait_memory_timeout = 0 /\ config.wait_memory_interval # 0)
    /\ ~(config.wait_memory_interval = 0 /\ config.wait_memory_timeout # 0)
    /\ "--wait-timeout" \notin DOMAIN supplied => config.wait_memory_timeout = 3600
    /\ "--wait-interval" \notin DOMAIN supplied => config.wait_memory_interval = 60

\* C13: when the parser has accepted the command line, gpu_count is at least
\* 1, it is 1 when --gpus was not given, and otherwise it is the number
\* written in the last --gpus argument, which is not below 1.
C13_GpuCountPositive ==
  pc = "poll" =>
    /\ config.gpu_count >= 1
    /\ "--gpus" \notin DOMAIN supplied => config.gpu_count = 1
    /\ "--gpus" \in DOMAIN supplied =>
         /\ supplied["--gpus"].number >= 1
         /\ config.gpu_count = supplied["--gpus"].number

\* the process that runs do_launch has reached its execvp call
ExecReached == lpc \in {"exec", "program", "returned"}

\* the text cut at its commas
RECURSIVE FieldsOf(_)
FieldsOf(text) ==
  IF \A k \in DOMAIN text : text[k] # ","
  THEN <<text>>
  ELSE LET k == CHOOSE c \in DOMAIN text :
                  text[c] = "," /\ \A b \in 1..(c - 1) : text[b] # ","
       IN  <<SubSeq(text, 1, k - 1)>> \o FieldsOf(SubSeq(text, k + 1, Len(text)))

\* the ids a reader of CUDA_VISIBLE_DEVICES finds in it, as decimal numerals
IdsIn(text) == IF text = <<>> THEN <<>> ELSE FieldsOf(text)

\* C14: whenever the exec of the workload is reached, CUDA_VISIBLE_DEVICES has
\* been written exactly once and reads as the decimal ids of the selected
\* devices, in selection order, separated by commas; the variable is never
\* written twice, it was written before the tee helper or the child was
\* forked and before do_launch began, and the Memory Watcher was handed the
\* same ids in the same order.
C14_EnvironmentBeforeExec ==
  /\ setenv_calls <= 1
  /\ (tee_running \/ pid # 0 \/ lpc # "none") => setenv_calls = 1
  /\ ExecReached =>
       /\ setenv_calls = 1
       /\ IdsIn(env) = [i \in DOMAIN chosen |-> ToString(chosen[i].id)]
       /\ Len(chosen) = config.gpu_count
  /\ watcher.started =>
       watcher.ids = [i \in DOMAIN chosen |-> chosen[i].id]

\* C14 witness: the forked child runs the program on two devices, with the
\* tee helper and the Memory Watcher started.
C14_Witness ==
  /\ lpc = "program"
  /\ pid # 0
  /\ Len(chosen) = 2
  /\ tee_running
  /\ watcher.started

\* the diagnostics glaunch writes from the device selection on, the failures
\* of the logging setup itself left aside
LaterDiagnostics ==
  {"running on GPU", "executing", "failed to exec", "program exited with code",
   "program killed with signal", "program terminated, but how?", "elapsed time"}

\* C15: with --log, the tee helper runs and stderr leads into the pipe whenever
\* a diagnostic from the running-on-GPU announcement on has been written, and
\* every such diagnostic went through the pipe.
C15_AnnouncementLogged ==
  config.logging_path # "" =>
    \A message \in reported \cap LaterDiagnostics :
      /\ tee_running
      /\ stderr_to = "pipe"
      /\ message \in logged

\* C16: do_launch runs in glaunch itself exactly when neither --time nor
\* --watch-memory is in force; then no child is forked, the program replaces
\* glaunch, and there is no watcher, wait, outcome report or elapsed-time
\* report; otherwise do_launch runs in a forked child, glaunch stays as the
\* supervisor, and the Memory Watcher is started there exactly when
\* monitor_gpu_memory is not zero.
C16_DirectIffUnsupervised ==
  /\ lpc # "none" =>
       (pid = 0 <=> (~config.timing /\ config.monitor_gpu_memory = 0))
  /\ (lpc # "none" /\ pid = 0) =>
       /\ pc \in {"do_launch", "replaced", "exit"}
       /\ lpc = "program" <=> pc = "replaced"
       /\ status = Uninitialized
       /\ outcome = <<>>
       /\ "elapsed time" \notin reported
  /\ pid # 0 =>
       /\ pc \in {"gettime", "waitpid", "classify", "timing", "exit", "dead"}
       /\ lpc # "none"
  /\ watcher.started => (pid # 0 /\ config.monitor_gpu_memory # 0)
  /\ (pid # 0 /\ pc \in {"waitpid", "classify", "timing", "exit"}) =>
       (watcher.started <=> config.monitor_gpu_memory # 0)
  /\ (status # Uninitialized \/ outcome # <<>>) => pid # 0

\* C16 witness: with --watch-memory alone the program runs in a forked child
\* while glaunch waits, the watcher started.
C16_Witness ==
  /\ ~config.timing
  /\ config.monitor_gpu_memory # 0
  /\ pid # 0
  /\ lpc = "program"
  /\ pc = "waitpid"
  /\ watcher.started

\* the wait status of a process that exited with -ENOEXEC
ExecFailureStatus == [kind |-> "exited", value |-> 256 - ENOEXEC]

\* what the supervisor reports and returns for ExecFailureStatus
ExecFailureReport ==
  /\ outcome = <<[report |-> "program exited with code", value |-> 256 - ENOEXEC]>>
  /\ exit_status = 256 - ENOEXEC

\* execvp failed in the process that ran do_launch
ExecFailed == lpc = "returned"

C18_SupervisorOutcome ==
  /\ Len(outcome) <= 1
  /\ outcome # <<>> => (pid # 0 /\ child_end # Alive)
  /\ (pid # 0 /\ pc = "exit") =>
       /\ Len(outcome) = 1
       /\ CASE child_end.kind = "exited" ->
                 /\ outcome[1] = [report |-> "program exited with code",
                                  value |-> child_end.value]
                 /\ exit_status = child_end.value
            [] child_end.kind = "signaled" ->
                 /\ outcome[1] = [report |-> "program killed with signal",
                                  value |-> child_end.value]
                 /\ exit_status = -EINTR
            [] OTHER ->
                 /\ outcome[1].report = "program terminated, but how?"
                 /\ exit_status = -EAGAIN
  /\ "failed to make pipe" \in reported => (pc = "exit" /\ exit_status = -EMFILE)
  /\ "cannot fork" \in reported =>
       (pc = "exit" /\ exit_status \in {-EAGAIN, -ENOMEM})
  /\ "not enough devices" \in reported => (pc = "exit" /\ exit_status = -ENOMEM)

\* C19: whenever the supervisor is past its wait, the child has terminated
\* and the status it classifies is the one the child left; the outcome it
\* reports is the one of that status.
C19_WaitReturnsStatus ==
  (pid # 0 /\ pc \in {"classify", "timing", "exit"}) =>
    /\ child_end # Alive
    /\ status = child_end
    /\ outcome # <<>> => outcome[1].report = Classification(child_end).report

\* C20: when the supervising glaunch process has died after the fork, the
\* child has terminated or has been sent the termination signal: it is not
\* left alive.
C20_NoOrphan ==
  pc = "dead" => child_end # Alive

\* the diagnostics of the option parser that go with exit(EXIT_FAILURE)
FatalReports ==
  {"cannot convert", "invalid value", "invalid suffix", "invalid policy",
   "expects arguments but not provided", "invalid option string",
   "unrecognized option"}

\* C21: every fatal configuration error ends glaunch at once with a report on
\* standard error and a failure status: a rejected flag value, an unknown
\* option or an option without its argument has been reported only in a
\* process that exited with EXIT_FAILURE before any poll, sleep or launch, and
\* once the option parser is over on a command line without a PROGRAM,
\* glaunch has likewise exited with a report and EXIT_FAILURE.
C21_FatalErrorsExit ==
  /\ reported \cap FatalReports # {} =>
        /\ pc = "exit" /\ exit_status = EXIT_FAILURE
        /\ polls = 0 /\ ~has_slept /\ ~launched
  /\ (pc # "parse" /\ ProgramMissing) =>
        /\ pc = "exit" /\ exit_status = EXIT_FAILURE
        /\ reported # {}
        /\ polls = 0 /\ ~has_slept /\ ~launched

\* the devices (1-based positions of gps_nvml) that gps opened and whose
\* processes it listed
ListedDevices == {j \in DOMAIN gps_nvml : gps_nvml[j].open /\ gps_nvml[j].list_ok}

\* the process ids seen on those devices
SeenPids == UNION {DOMAIN gps_nvml[j].procs : j \in ListedDevices}

\* the per-device lines the record of process q is to have: one line per
\* device among the first n that listed q, describing that device
RECURSIVE ExpectedLines(_, _)
ExpectedLines(q, n) ==
  IF n = 0 THEN <<>>
  ELSE IF n \in ListedDevices /\ q \in DOMAIN gps_nvml[n].procs
       THEN Append(ExpectedLines(q, n - 1),
                   [id |-> n - 1, name |-> n - 1, total |-> gps_nvml[n].total,
                    memory_used |-> gps_nvml[n].procs[q]])
       ELSE ExpectedLines(q, n - 1)

\* the sum of the memory of process q over the devices it was listed on
RECURSIVE ExpectedTotal(_, _)
ExpectedTotal(q, n) ==
  IF n = 0 THEN 0
  ELSE ExpectedTotal(q, n - 1)
       + (IF n \in ListedDevices /\ q \in DOMAIN gps_nvml[n].procs
          THEN gps_nvml[n].procs[q] ELSE 0)

\* C22: the census completes whichever devices fail to open or to list their
\* processes: gps never ends in an uncaught exception, every record it prints
\* is the only one of a process id seen on a listed device, its total is the
\* sum of that process's memory over the devices that listed it, and its
\* per-device lines describe exactly those devices (id, name, total memory);
\* when gps is done every seen process id has its record.
C22_CensusRecords ==
  /\ gps.pc # "aborted"
  /\ \A k \in DOMAIN gps.printed :
       LET r == gps.printed[k]
       IN  /\ r.pid \in SeenPids
           /\ \A m \in DOMAIN gps.printed : m # k => gps.printed[m].pid # r.pid
           /\ r.total = ExpectedTotal(r.pid, Len(gps_nvml))
           /\ r.lines = ExpectedLines(r.pid, Len(gps_nvml))
  /\ gps.pc = "done" =>
       {gps.printed[k].pid : k \in DOMAIN gps.printed} = SeenPids

\* C24: in both launch modes the process that reaches the exec has called
\* setpgid and is the leader of its own process group (its process-group id
\* is its pid); it has requested the parent-death signal exactly when glaunch
\* forked; and the pid given to the Memory Watcher is the forked child's pid,
\* which is that process-group id.
C24_GroupLeaderBeforeExec ==
  /\ ExecReached =>
       /\ pgid_set
       /\ pgid = LauncherPid(config)
       /\ pdeathsig <=> ~direct_exec(config)
       /\ pid # 0 <=> ~direct_exec(config)
  /\ watcher.started =>
       /\ ~direct_exec(config)
       /\ watcher.pid = LauncherPid(config)
       /\ ExecReached => watcher.pid = pgid

\* C24 witness: glaunch, started in the shell's process group, has forked; the
\* child has armed the parent-death signal and runs the program in a group of
\* its own, and the watcher was given that group
C24_Witness ==
  /\ lpc = "program"
  /\ pid = ChildPid
  /\ pdeathsig
  /\ pgid = ChildPid /\ pgid # GlaunchPid
  /\ watcher.started /\ watcher.pid = pgid

\* the used GPU memory of the processes of one list that are in the group
RECURSIVE UsedByGroup(_, _)
UsedByGroup(processes, group) ==
  IF processes = <<>> THEN 0
  ELSE (IF processes[Len(processes)].pgid = group
        THEN processes[Len(processes)].usedGpuMemory ELSE 0)
       + UsedByGroup(SubSeq(processes, 1, Len(processes) - 1), group)

\* the same over the devices that opened and listed their processes
RECURSIVE GroupSum(_, _)
GroupSum(answers, group) ==
  IF answers = <<>> THEN 0
  ELSE (IF answers[Len(answers)].open /\ answers[Len(answers)].list_ok
        THEN UsedByGroup(answers[Len(answers)].procs, group) ELSE 0)
       + GroupSum(SubSeq(answers, 1, Len(answers) - 1), group)

\* C23: every pass of the Memory Watcher slept monitor_gpu_memory seconds,
\* went over the selected devices, and holds as its total, counted from zero,
\* the used GPU memory of all processes listed on the selected devices whose
\* process group is the one the supervised child is in at that time; a device
\* that failed to open or to list its processes adds nothing.
C23_SampleIsGroupSum ==
  sample.taken =>
    /\ sample.interval = config.monitor_gpu_memory
    /\ sample.ids = device_ids
    /\ sample.total = GroupSum(sample.answers, sample.group)

\* C25: no pass of the Memory Watcher reads the device list and the
\* configuration after main has returned and destroyed them: every pass is
\* made while main is still running, and the watcher never brings the process
\* down.
C25_WatcherReadsLiveData ==
  /\ sample.taken => ~sample.after_return
  /\ (pc = "dead" /\ watcher.started) => exit_status = Unset

\* the waiter has left Polling with a full selection at hand
Satisfied == pc = "select"

\* the waiter has left Polling with the resource-unavailable failure
WaiterTimedOut == pc = "exit" /\ exit_status = -ENOMEM

\* C26: whatever the wait options and the device snapshots, as long as time
\* advances the waiter leaves Polling for good, in Satisfied or in TimedOut and
\* never in both; it is in TimedOut, with the failure reported, only when at
\* least wait_memory_timeout seconds have passed since the wait began.
C26_WaiterTerminates ==
  /\ <>[](Satisfied \/ WaiterTimedOut)
  /\ [](~(Satisfied /\ WaiterTimedOut))
  /\ [](WaiterTimedOut =>
          /\ "not enough devices" \in reported
          /\ clock - start_wait_time >= config.wait_memory_timeout)

\* C26 witness: the interval is zero and the timeout is not; the waiter has
\* polled more than once without ever sleeping and has timed out
C26_Witness ==
  /\ config.wait_memory_interval = 0
  /\ config.wait_memory_timeout > 0
  /\ WaiterTimedOut
  /\ polls >= 2
  /\ ~has_slept

====
